---- MODULE Spec2Model ----
(***************************************************************************)
(* A model of the construct compositions of osml-cdk-constructs.           *)
(*                                                                         *)
(* Every construct is a constructor that runs once, synchronously, and     *)
(* declares child constructs (resources) and bindings between them.  The   *)
(* model runs one constructor at a time, statement by statement: `pc' is   *)
(* the position inside the constructor, `children' the constructs declared *)
(* so far in the scope of the construct (in declaration order) and         *)
(* `bindings' the policies, network rules and subscriptions added so far.  *)
(* An application may instantiate several constructs one after another;    *)
(* `prev' keeps the outcome of the instantiation before the current one.   *)
(***************************************************************************)
EXTENDS Integers, Sequences, FiniteSets, TLC

VARIABLES
    construct,                \* the class being instantiated
    props,                    \* the props record handed to its constructor
    pc,                       \* position inside the constructor
    children,                 \* constructs declared in this scope, in order
    bindings,                 \* policies / network rules / subscriptions, in order
    \* DCDataplane public fields
    config, securityGroup, ingestTopic, lambdaRole, removalPolicy,
    stacFunction, ingestFunction,
    \* DCDataplane constructor locals
    opensearchSecurityGroup, osDomain, env,
    \* TSLambdaRole public fields
    role, partition, tsDataplaneConfig,
    \* TSDataplane public fields
    tsConfig, taskRole, jobTable,
    \* OSMLSMEndpoint: the constructor's id argument, its local, its fields
    constructId, vpcSubnetSelection, model, endpointConfig, endpoint,
    \* the application around the constructs
    composed,                 \* how many constructs have been instantiated
    prev                      \* outcome of the previous instantiation

dcFields == <<config, securityGroup, ingestTopic, lambdaRole, removalPolicy,
              stacFunction, ingestFunction>>
dcLocals == <<opensearchSecurityGroup, osDomain, env>>
roleFields == <<role, partition, tsDataplaneConfig>>
tsFields == <<tsConfig, taskRole, jobTable>>
smState == <<constructId, vpcSubnetSelection, model, endpointConfig, endpoint>>
app == <<composed, prev>>
vars == <<construct, props, pc, children, bindings, dcFields, dcLocals,
          roleFields, tsFields, smState, app>>

(***************************************************************************)
(* JavaScript values.  A field that has not been assigned, an omitted      *)
(* optional property and a failed lookup are all `undefined'.  Strings     *)
(* that may be undefined are boxed so that they compare with Undefined.    *)
(***************************************************************************)
Undefined == [type |-> "undefined"]

Str(s) == [type |-> "string", value |-> s]

\* `if (x)': undefined and the empty string are falsy, objects are truthy.
Truthy(v) == v # Undefined /\ v # Str("")

\* `${x}' inside a template literal.
TemplateStr(v) == IF v = Undefined THEN "undefined" ELSE v.value

\* How many constructs one application run instantiates in sequence.
MaxCompositions == 2

(***************************************************************************)
(* DCDataplaneConfig: a constructor of positional parameters, each with a  *)
(* default.  `args' maps the positions the caller passes (and does not     *)
(* pass as undefined) to their values.                                     *)
(***************************************************************************)
DCDataplaneConfig(args) ==
    LET Arg(i, d) == IF i \in DOMAIN args THEN args[i] ELSE d
    IN  [LAMBDA_ROLE_NAME          |-> Arg(1, "DCLambdaRole"),
         LAMBDA_MEMORY_SIZE        |-> Arg(2, 4096),
         LAMBDA_STORAGE_SIZE       |-> Arg(3, 10),
         LAMBDA_TIMEOUT            |-> Arg(4, 300),
         OS_DATA_NODES             |-> Arg(5, 4),
         OS_EBS_SIZE               |-> Arg(6, 10),
         STAC_FASTAPI_BACKEND      |-> Arg(7, "opensearch"),
         STAC_FASTAPI_TITLE        |-> Arg(8, "stac-fastapi-opensearch"),
         STAC_FASTAPI_DESCRIPTION  |-> Arg(9, "A STAC FastAPI with an OpenSearch backend"),
         STAC_FASTAPI_VERSION      |-> Arg(10, "2.4.1"),
         STAC_FASTAPI_ROOT_PATH    |-> Arg(11, "data-catalog"),
         RELOAD                    |-> Arg(12, "true"),
         ENVIRONMENT               |-> Arg(13, "local"),
         WEB_CONCURRENCY           |-> Arg(14, "10"),
         ES_PORT                   |-> Arg(15, "443"),
         ES_USE_SSL                |-> Arg(16, "true"),
         ES_VERIFY_CERTS           |-> Arg(17, "true"),
         SERVICE_NAME_ABBREVIATION |-> Arg(18, "DC"),
         SNS_INGEST_TOPIC_NAME     |-> Arg(19, "osml-stac-ingest")]

\* Argument lists a caller may construct a config with: every position
\* overridden by a value that is not the default, and only two of them.
AllOverridden ==
    <<"MyLambdaRole", 2048, 5, 120, 2, 20, "elasticsearch", "my-stac",
      "My STAC catalog", "3.0.0", "catalog", "false", "prod", "2", "9200",
      "false", "false", "CAT", "my-stac-ingest">>

SomeOverridden == (1 :> "OtherLambdaRole") @@ (4 :> 900)

CallerConfigs == {DCDataplaneConfig(AllOverridden), DCDataplaneConfig(SomeOverridden)}

(***************************************************************************)
(* The collaborators a caller of DCDataplane may hand in.                  *)
(***************************************************************************)
DCAccounts ==
    [id: {"123456789012"}, region: {"us-east-1"}, prodLike: BOOLEAN, auth: BOOLEAN]

OSMLVpcs ==
    {[vpc |-> "OSMLVpc", selectedSubnets |-> [subnetIds |-> <<"subnet-a", "subnet-b">>]]}

CallerTopic == [type |-> "Topic", id |-> "CallerTopic", topicName |-> "caller-topic"]

CallerRole ==
    [type |-> "Role", id |-> "CallerRole", roleName |-> "CallerRole",
     accountId |-> "123456789012", region |-> "us-east-1"]

CallerSecurityGroupIds == {Str(""), Str("sg-0123456789")}

DCDataplaneProps ==
    [account: DCAccounts,
     osmlVpc: OSMLVpcs,
     stacCode: {"stacCode"},
     ingestCode: {"ingestCode"},
     ingestTopic: {Undefined, CallerTopic},
     securityGroupId: {Undefined} \cup CallerSecurityGroupIds,
     lambdaRole: {Undefined, CallerRole},
     config: {Undefined} \cup CallerConfigs]

(***************************************************************************)
(* Cross-resource references: an attribute of a declared resource that is  *)
(* only known at deployment (a token).                                     *)
(***************************************************************************)
Attr(id, name) == [type |-> "attr", of |-> id, attr |-> name]

RETAIN == "RETAIN"
DESTROY == "DESTROY"

Declare(child) == children' = Append(children, child)
Bind(binding) == bindings' = Append(bindings, binding)

(***************************************************************************)
(* DCDataplane.setup                                                       *)
(***************************************************************************)
IsDC == construct = "DCDataplane"

\* A setup that keeps only the role name of a supplied config.
SetupConfig_KeepsRoleNameOnly ==
    /\ construct = "DCDataplane" /\ pc = "setup_config"
    /\ config' = IF props.config # Undefined
                 THEN DCDataplaneConfig(<<props.config.LAMBDA_ROLE_NAME>>)
                 ELSE DCDataplaneConfig(<<>>)
    /\ pc' = "setup_sg"
    /\ UNCHANGED <<construct, props, children, bindings, securityGroup,
                   ingestTopic, lambdaRole, removalPolicy, stacFunction,
                   ingestFunction, dcLocals, roleFields, tsFields, smState, app>>

\* if (props.config != undefined) this.config = props.config
\* else this.config = new DCDataplaneConfig()
SetupConfig ==
    /\ IsDC /\ pc = "setup_config"
    /\ config' = IF props.config # Undefined
                 THEN props.config
                 ELSE DCDataplaneConfig(<<>>)
    /\ pc' = "setup_sg"
    /\ UNCHANGED <<construct, props, children, bindings, securityGroup,
                   ingestTopic, lambdaRole, removalPolicy, stacFunction,
                   ingestFunction, dcLocals, roleFields, tsFields, smState, app>>

\* SecurityGroup.fromSecurityGroupId(this, "DCImportSecurityGroup", id):
\* a reference to an existing group; it declares no new group.
ImportedSecurityGroup(id) ==
    [type |-> "SecurityGroup", id |-> "DCImportSecurityGroup",
     imported |-> TRUE, securityGroupId |-> id]

\* if (props.securityGroupId) this.securityGroup = SecurityGroup.from...
\* (no else branch: the field stays unassigned)
SetupSecurityGroup ==
    /\ IsDC /\ pc = "setup_sg"
    /\ IF Truthy(props.securityGroupId)
       THEN /\ securityGroup' = ImportedSecurityGroup(props.securityGroupId)
            /\ Declare(securityGroup')
       ELSE UNCHANGED <<securityGroup, children>>
    /\ pc' = "setup_topic"
    /\ UNCHANGED <<construct, props, bindings, config, ingestTopic,
                   lambdaRole, removalPolicy, stacFunction, ingestFunction,
                   dcLocals, roleFields, tsFields, smState, app>>

\* A topic left to a generated name.
NewTopic_Unnamed(topicName) ==
    [type |-> "Topic", id |-> "DIOutputTopic", topicName |-> "DIOutputTopic"]

\* new Topic(this, "DIOutputTopic", {topicName: ...})
NewTopic(topicName) ==
    [type |-> "Topic", id |-> "DIOutputTopic", topicName |-> topicName]

\* A setup whose topic branch also looks at the role property.
SetupIngestTopic_LooksAtRole ==
    /\ construct = "DCDataplane" /\ pc = "setup_topic"
    /\ IF Truthy(props.ingestTopic) /\ props.lambdaRole = Undefined
       THEN /\ ingestTopic' = props.ingestTopic
            /\ UNCHANGED children
       ELSE /\ ingestTopic' = NewTopic(config.SNS_INGEST_TOPIC_NAME)
            /\ Declare(ingestTopic')
    /\ pc' = "setup_removal"
    /\ UNCHANGED <<construct, props, bindings, config, securityGroup,
                   lambdaRole, removalPolicy, stacFunction, ingestFunction,
                   dcLocals, roleFields, tsFields, smState, app>>

\* A setup that declares its own topic even when one is supplied.
SetupIngestTopic_AlwaysCreates ==
    /\ construct = "DCDataplane" /\ pc = "setup_topic"
    /\ ingestTopic' = NewTopic(config.SNS_INGEST_TOPIC_NAME)
    /\ Declare(ingestTopic')
    /\ pc' = "setup_removal"
    /\ UNCHANGED <<construct, props, bindings, config, securityGroup,
                   lambdaRole, removalPolicy, stacFunction, ingestFunction,
                   dcLocals, roleFields, tsFields, smState, app>>

\* if (props.ingestTopic) this.ingestTopic = props.ingestTopic
\* else this.ingestTopic = new Topic(...)
SetupIngestTopic ==
    /\ IsDC /\ pc = "setup_topic"
    /\ IF Truthy(props.ingestTopic)
       THEN /\ ingestTopic' = props.ingestTopic
            /\ UNCHANGED children
       ELSE /\ ingestTopic' = NewTopic(config.SNS_INGEST_TOPIC_NAME)
            /\ Declare(ingestTopic')
    /\ pc' = "setup_removal"
    /\ UNCHANGED <<construct, props, bindings, config, securityGroup,
                   lambdaRole, removalPolicy, stacFunction, ingestFunction,
                   dcLocals, roleFields, tsFields, smState, app>>

\* The ternary with its branches exchanged.
RemovalPolicyOf_Exchanged(account) == IF account.prodLike THEN "DESTROY" ELSE "RETAIN"

\* props.account.prodLike ? RemovalPolicy.RETAIN : RemovalPolicy.DESTROY
RemovalPolicyOf(account) == IF account.prodLike THEN RETAIN ELSE DESTROY

SetupRemovalPolicy ==
    /\ IsDC /\ pc = "setup_removal"
    /\ removalPolicy' = RemovalPolicyOf(props.account)
    /\ pc' = "setup_role"
    /\ UNCHANGED <<construct, props, children, bindings, config,
                   securityGroup, ingestTopic, lambdaRole, stacFunction,
                   ingestFunction, dcLocals, roleFields, tsFields, smState, app>>

\* new DCLambdaRole(this, "DCLambdaRole", {account, roleName}).role
DCLambdaRole(account, roleName) ==
    [type |-> "Role", id |-> "DCLambdaRole", roleName |-> roleName,
     accountId |-> account.id, region |-> account.region]

\* A setup that adopts a supplied role and creates none when none is given.
SetupLambdaRole_AdoptOnly ==
    /\ construct = "DCDataplane" /\ pc = "setup_role"
    /\ lambdaRole' = props.lambdaRole
    /\ pc' = "os_sg"
    /\ UNCHANGED <<construct, props, children, bindings, config, securityGroup,
                   ingestTopic, removalPolicy, stacFunction, ingestFunction,
                   dcLocals, roleFields, tsFields, smState, app>>

\* if (props.lambdaRole != undefined) this.lambdaRole = props.lambdaRole
\* else this.lambdaRole = new DCLambdaRole(...).role
SetupLambdaRole ==
    /\ IsDC /\ pc = "setup_role"
    /\ IF props.lambdaRole # Undefined
       THEN /\ lambdaRole' = props.lambdaRole
            /\ UNCHANGED children
       ELSE /\ lambdaRole' = DCLambdaRole(props.account, config.LAMBDA_ROLE_NAME)
            /\ Declare(lambdaRole')
    /\ pc' = "os_sg"
    /\ UNCHANGED <<construct, props, bindings, config, securityGroup,
                   ingestTopic, removalPolicy, stacFunction, ingestFunction,
                   dcLocals, roleFields, tsFields, smState, app>>

(***************************************************************************)
(* DCDataplane constructor body, after this.setup(props)                   *)
(***************************************************************************)
\* new SecurityGroup(this, "DCOSSecurityGroup", {vpc})
NewOSSecurityGroup(vpc) ==
    [type |-> "SecurityGroup", id |-> "DCOSSecurityGroup", imported |-> FALSE,
     securityGroupId |-> Attr("DCOSSecurityGroup", "GroupId"), vpc |-> vpc]

CreateOSSecurityGroup ==
    /\ IsDC /\ pc = "os_sg"
    /\ opensearchSecurityGroup' = NewOSSecurityGroup(props.osmlVpc.vpc)
    /\ Declare(opensearchSecurityGroup')
    /\ pc' = "os_domain"
    /\ UNCHANGED <<construct, props, bindings, dcFields, osDomain, env,
                   roleFields, tsFields, smState, app>>

\* new Domain(this, "DCOSDomain", {...})
NewDomain(p, cfg, sg) ==
    [type |-> "Domain", id |-> "DCOSDomain",
     version |-> "OPENSEARCH_2_11",
     nodeToNodeEncryption |-> TRUE,
     enforceHttps |-> TRUE,
     encryptionAtRest |-> [enabled |-> TRUE],
     vpc |-> p.osmlVpc.vpc,
     capacity |-> [dataNodes |-> cfg.OS_DATA_NODES],
     vpcSubnets |-> <<p.osmlVpc.selectedSubnets>>,
     removalPolicy |-> IF p.account.prodLike THEN RETAIN ELSE DESTROY,
     zoneAwareness |->
        [enabled |-> TRUE,
         availabilityZoneCount |-> Len(p.osmlVpc.selectedSubnets.subnetIds)],
     securityGroups |-> <<sg>>,
     domainArn |-> Attr("DCOSDomain", "Arn"),
     domainEndpoint |-> Attr("DCOSDomain", "DomainEndpoint")]

\* A domain put into the security group setup resolved, when there is one.
CreateOSDomain_ResolvedGroup ==
    /\ construct = "DCDataplane" /\ pc = "os_domain"
    /\ osDomain' = NewDomain(props, config,
                              IF securityGroup # Undefined
                              THEN securityGroup ELSE opensearchSecurityGroup)
    /\ Declare(osDomain')
    /\ pc' = "access_policy"
    /\ UNCHANGED <<construct, props, bindings, dcFields,
                   opensearchSecurityGroup, env, roleFields, tsFields, smState, app>>

CreateOSDomain ==
    /\ IsDC /\ pc = "os_domain"
    /\ osDomain' = NewDomain(props, config, opensearchSecurityGroup)
    /\ Declare(osDomain')
    /\ pc' = "access_policy"
    /\ UNCHANGED <<construct, props, bindings, dcFields,
                   opensearchSecurityGroup, env, roleFields, tsFields, smState, app>>

\* osDomain.addAccessPolicies(new PolicyStatement({...}))
AddAccessPolicies ==
    /\ IsDC /\ pc = "access_policy"
    /\ Bind([kind |-> "accessPolicy", on |-> osDomain.id,
             principals |-> <<"AnyPrincipal">>,
             actions |-> <<"es:ESHttp*">>,
             resources |-> <<[base |-> osDomain.domainArn, suffix |-> "/*"]>>])
    /\ pc' = "env"
    /\ UNCHANGED <<construct, props, children, dcFields, dcLocals,
                   roleFields, tsFields, smState, app>>

\* const env = {...}
LambdaEnv(cfg, domain) ==
    [STAC_FASTAPI_TITLE       |-> cfg.STAC_FASTAPI_TITLE,
     STAC_FASTAPI_DESCRIPTION |-> cfg.STAC_FASTAPI_DESCRIPTION,
     STAC_FASTAPI_VERSION     |-> cfg.STAC_FASTAPI_VERSION,
     RELOAD                   |-> cfg.RELOAD,
     ENVIRONMENT              |-> cfg.ENVIRONMENT,
     WEB_CONCURRENCY          |-> cfg.WEB_CONCURRENCY,
     ES_HOST                  |-> domain.domainEndpoint,
     ES_PORT                  |-> cfg.ES_PORT,
     ES_USE_SSL               |-> cfg.ES_USE_SSL,
     ES_VERIFY_CERTS          |-> cfg.ES_VERIFY_CERTS,
     STAC_FASTAPI_ROOT_PATH   |-> "/" \o cfg.STAC_FASTAPI_ROOT_PATH]

BuildEnv ==
    /\ IsDC /\ pc = "env"
    /\ env' = LambdaEnv(config, osDomain)
    /\ pc' = "stac_fn"
    /\ UNCHANGED <<construct, props, children, bindings, dcFields,
                   opensearchSecurityGroup, osDomain, roleFields, tsFields, smState, app>>

\* new DockerImageFunction(this, id, {...})
NewFunction(id, functionName, code, fnRole, vpc, cfg, environment) ==
    [type |-> "DockerImageFunction", id |-> id,
     functionName |-> functionName,
     code |-> code,
     role |-> fnRole,
     vpc |-> vpc,
     timeout |-> [seconds |-> cfg.LAMBDA_TIMEOUT],
     ephemeralStorageSize |-> [gibibytes |-> cfg.LAMBDA_STORAGE_SIZE],
     memorySize |-> cfg.LAMBDA_MEMORY_SIZE,
     environment |-> environment,
     loggingFormat |-> "JSON"]

\* A function given the role property rather than the resolved role.
CreateStacFunction_RoleFromProps ==
    /\ construct = "DCDataplane" /\ pc = "stac_fn"
    /\ stacFunction' = NewFunction("DCStacFunction", "DCStacLambda",
                                   props.stacCode, props.lambdaRole,
                                   props.osmlVpc.vpc, config, env)
    /\ Declare(stacFunction')
    /\ pc' = "allow_stac"
    /\ UNCHANGED <<construct, props, bindings, config, securityGroup,
                   ingestTopic, lambdaRole, removalPolicy, ingestFunction,
                   dcLocals, roleFields, tsFields, smState, app>>

CreateStacFunction ==
    /\ IsDC /\ pc = "stac_fn"
    /\ stacFunction' = NewFunction("DCStacFunction", "DCStacLambda",
                                   props.stacCode, lambdaRole,
                                   props.osmlVpc.vpc, config, env)
    /\ Declare(stacFunction')
    /\ pc' = "allow_stac"
    /\ UNCHANGED <<construct, props, bindings, config, securityGroup,
                   ingestTopic, lambdaRole, removalPolicy, ingestFunction,
                   dcLocals, roleFields, tsFields, smState, app>>

\* osDomain.connections.allowFrom(fn, Port.tcp(443))
AllowFrom(domain, fn) ==
    [kind |-> "allowFrom", on |-> domain.id, peer |-> fn.id,
     port |-> [protocol |-> "tcp", port |-> 443]]

AllowStacFunction ==
    /\ IsDC /\ pc = "allow_stac"
    /\ Bind(AllowFrom(osDomain, stacFunction))
    /\ pc' = "rest_api"
    /\ UNCHANGED <<construct, props, children, dcFields, dcLocals,
                   roleFields, tsFields, smState, app>>

\* new OSMLRestApi(this, "DCRestApi", {...})
NewRestApi(account, cfg, fn) ==
    [type |-> "OSMLRestApi", id |-> "DCRestApi",
     account |-> account,
     name |-> cfg.SERVICE_NAME_ABBREVIATION,
     apiStageName |-> cfg.STAC_FASTAPI_ROOT_PATH,
     integration |-> [type |-> "LambdaIntegration", handler |-> fn.id]]

\* A constructor that declares the API whatever account.auth says.
CreateRestApi_Unconditional ==
    /\ construct = "DCDataplane" /\ pc = "rest_api"
    /\ Declare(NewRestApi(props.account, config, stacFunction))
    /\ pc' = "ingest_fn"
    /\ UNCHANGED <<construct, props, bindings, dcFields, dcLocals,
                   roleFields, tsFields, smState, app>>

\* if (props.account.auth) { new OSMLRestApi(...) }
CreateRestApi ==
    /\ IsDC /\ pc = "rest_api"
    /\ IF props.account.auth
       THEN Declare(NewRestApi(props.account, config, stacFunction))
       ELSE UNCHANGED children
    /\ pc' = "ingest_fn"
    /\ UNCHANGED <<construct, props, bindings, dcFields, dcLocals,
                   roleFields, tsFields, smState, app>>

\* An ingest function with an environment of its own.
CreateIngestFunction_OwnEnv ==
    /\ construct = "DCDataplane" /\ pc = "ingest_fn"
    /\ ingestFunction' = NewFunction("DCIngestFunction", "DCIngestLambda",
                                     props.ingestCode, lambdaRole,
                                     props.osmlVpc.vpc, config,
                                     [env EXCEPT !.RELOAD = "false"])
    /\ Declare(ingestFunction')
    /\ pc' = "subscribe"
    /\ UNCHANGED <<construct, props, bindings, config, securityGroup,
                   ingestTopic, lambdaRole, removalPolicy, stacFunction,
                   dcLocals, roleFields, tsFields, smState, app>>

CreateIngestFunction ==
    /\ IsDC /\ pc = "ingest_fn"
    /\ ingestFunction' = NewFunction("DCIngestFunction", "DCIngestLambda",
                                     props.ingestCode, lambdaRole,
                                     props.osmlVpc.vpc, config, env)
    /\ Declare(ingestFunction')
    /\ pc' = "subscribe"
    /\ UNCHANGED <<construct, props, bindings, config, securityGroup,
                   ingestTopic, lambdaRole, removalPolicy, stacFunction,
                   dcLocals, roleFields, tsFields, smState, app>>

\* this.ingestTopic.addSubscription(new LambdaSubscription(this.ingestFunction))
SubscribeIngestFunction ==
    /\ IsDC /\ pc = "subscribe"
    /\ Bind([kind |-> "subscription", topic |-> ingestTopic.id,
             endpoint |-> [type |-> "LambdaSubscription",
                           fn |-> ingestFunction.id]])
    /\ pc' = "allow_ingest"
    /\ UNCHANGED <<construct, props, children, dcFields, dcLocals,
                   roleFields, tsFields, smState, app>>

AllowIngestFunction ==
    /\ IsDC /\ pc = "allow_ingest"
    /\ Bind(AllowFrom(osDomain, ingestFunction))
    /\ pc' = "done"
    /\ UNCHANGED <<construct, props, children, dcFields, dcLocals,
                   roleFields, tsFields, smState, app>>

DCDataplaneStep ==
    \/ SetupConfig
    \/ SetupSecurityGroup
    \/ SetupIngestTopic
    \/ SetupRemovalPolicy
    \/ SetupLambdaRole
    \/ CreateOSSecurityGroup
    \/ CreateOSDomain
    \/ AddAccessPolicies
    \/ BuildEnv
    \/ CreateStacFunction
    \/ AllowStacFunction
    \/ CreateRestApi
    \/ CreateIngestFunction
    \/ SubscribeIngestFunction
    \/ AllowIngestFunction

(***************************************************************************)
(* TSDataplaneConfig and TSDataplane live in tile_server/ts_dataplane.ts,  *)
(* of which only the importing role and the unit test are at hand.         *)
(***************************************************************************)
TSDataplaneConfig(args) ==
    LET Arg(i, d) == IF i \in DOMAIN args THEN args[i] ELSE d
    IN  [DDB_JOB_TABLE |-> Arg(1, "TSJobTable")]

(***************************************************************************)
(* TSLambdaRole constructor                                                *)
(***************************************************************************)
IsTSRole == construct = "TSLambdaRole"

\* Regions a caller may name; the last one is in no partition.
Regions == {"us-east-1", "cn-north-1", "us-gov-west-1", "xx-nowhere-1"}

\* region_info.Fact.find(region, region_info.FactName.PARTITION):
\* the partition of the region, or undefined when the region is unknown.
FactFindPartition(region) ==
    CASE region = "us-east-1"     -> Str("aws")
      [] region = "cn-north-1"    -> Str("aws-cn")
      [] region = "us-gov-west-1" -> Str("aws-us-gov")
      [] OTHER                    -> Undefined

TSLambdaRoleProps ==
    [account: [id: {"123456789012", "210987654321"}, region: Regions,
               prodLike: {FALSE}, auth: {FALSE}],
     roleName: {"TSLambdaRole", "TSSweeperRole"}]

\* public tsDataplaneConfig: TSDataplaneConfig = new TSDataplaneConfig();
InitRoleFields ==
    /\ IsTSRole /\ pc = "init_fields"
    /\ tsDataplaneConfig' = TSDataplaneConfig(<<>>)
    /\ pc' = "partition"
    /\ UNCHANGED <<construct, props, children, bindings, dcFields, dcLocals,
                   role, partition, tsFields, smState, app>>

\* this.partition = region_info.Fact.find(...)!
\* The `!' is erased at run time: an undefined result is stored as it is.
LookupPartition ==
    /\ IsTSRole /\ pc = "partition"
    /\ partition' = FactFindPartition(props.account.region)
    /\ pc' = "role"
    /\ UNCHANGED <<construct, props, children, bindings, dcFields, dcLocals,
                   role, tsDataplaneConfig, tsFields, smState, app>>

\* const role = new Role(this, "TSLambdaRole", {...})
NewTSRole(roleName) ==
    [type |-> "Role", id |-> "TSLambdaRole", roleName |-> roleName,
     assumedBy |-> <<"lambda.amazonaws.com">>,
     statements |-> <<>>]

CreateRole ==
    /\ IsTSRole /\ pc = "role"
    /\ Declare(NewTSRole(props.roleName))
    /\ pc' = "ddb"
    /\ UNCHANGED <<construct, props, bindings, dcFields, dcLocals,
                   roleFields, tsFields, smState, app>>

\* role.addToPolicy(statement): the const `role' is the child just declared.
AddToPolicy(statement) ==
    children' = [children EXCEPT ![Len(children)].statements = Append(@, statement)]

\* An ARN template with the commercial partition written into it.
Arn_FixedPartition(part, service, account, resource) ==
    "arn:aws:" \o service \o ":" \o account.region
           \o ":" \o account.id \o ":" \o resource

Arn(part, service, account, resource) ==
    "arn:" \o TemplateStr(part) \o ":" \o service \o ":" \o account.region
           \o ":" \o account.id \o ":" \o resource

DynamoStatement(part, account, cfg) ==
    [effect |-> "ALLOW",
     actions |-> <<"dynamodb:GetItem", "dynamodb:PutItem", "dynamodb:UpdateItem">>,
     resources |-> <<Arn(part, "dynamodb", account, "table/" \o cfg.DDB_JOB_TABLE)>>]

LambdaStatement(part, account) ==
    [effect |-> "ALLOW",
     actions |-> <<"lambda:GetFunctionConfiguration">>,
     resources |-> <<Arn(part, "lambda", account, "function:*")>>]

NetworkStatement ==
    [effect |-> "ALLOW",
     actions |-> <<"elasticloadbalancing:DescribeLoadBalancers",
                   "ec2:CreateNetworkInterface",
                   "ec2:DescribeNetworkInterfaces",
                   "ec2:DeleteNetworkInterface",
                   "ec2:DescribeInstances",
                   "ec2:AttachNetworkInterface">>,
     resources |-> <<"*">>]

LogsStatement(part, account) ==
    [effect |-> "ALLOW",
     actions |-> <<"logs:CreateLogGroup", "logs:CreateLogStream", "logs:PutLogEvents">>,
     resources |-> <<Arn(part, "logs", account, "*")>>]

\* A statement on a table named after the role.
AddDynamoPermissions_TableOfRoleName ==
    /\ construct = "TSLambdaRole" /\ pc = "ddb"
    /\ AddToPolicy(DynamoStatement(partition, props.account,
                                   [DDB_JOB_TABLE |-> props.roleName]))
    /\ pc' = "lambda"
    /\ UNCHANGED <<construct, props, bindings, dcFields, dcLocals,
                   roleFields, tsFields, smState, app>>

AddDynamoPermissions ==
    /\ IsTSRole /\ pc = "ddb"
    /\ AddToPolicy(DynamoStatement(partition, props.account, tsDataplaneConfig))
    /\ pc' = "lambda"
    /\ UNCHANGED <<construct, props, bindings, dcFields, dcLocals,
                   roleFields, tsFields, smState, app>>

AddLambdaPermissions ==
    /\ IsTSRole /\ pc = "lambda"
    /\ AddToPolicy(LambdaStatement(partition, props.account))
    /\ pc' = "network"
    /\ UNCHANGED <<construct, props, bindings, dcFields, dcLocals,
                   roleFields, tsFields, smState, app>>

AddNetworkPermissions ==
    /\ IsTSRole /\ pc = "network"
    /\ AddToPolicy(NetworkStatement)
    /\ pc' = "logs"
    /\ UNCHANGED <<construct, props, bindings, dcFields, dcLocals,
                   roleFields, tsFields, smState, app>>

AddLogsPermissions ==
    /\ IsTSRole /\ pc = "logs"
    /\ AddToPolicy(LogsStatement(partition, props.account))
    /\ pc' = "assign"
    /\ UNCHANGED <<construct, props, bindings, dcFields, dcLocals,
                   roleFields, tsFields, smState, app>>

\* this.role = role
AssignRole ==
    /\ IsTSRole /\ pc = "assign"
    /\ role' = children[Len(children)]
    /\ pc' = "done"
    /\ UNCHANGED <<construct, props, children, bindings, dcFields, dcLocals,
                   partition, tsDataplaneConfig, tsFields, smState, app>>

TSLambdaRoleStep ==
    \/ InitRoleFields
    \/ LookupPartition
    \/ CreateRole
    \/ AddDynamoPermissions
    \/ AddLambdaPermissions
    \/ AddNetworkPermissions
    \/ AddLogsPermissions
    \/ AssignRole

(***************************************************************************)
(* TSDataplane constructor, as far as its unit test and the dataplane      *)
(* composition rules describe it: resolve the config, resolve the task     *)
(* role (reuse or create), declare the job table.                          *)
(***************************************************************************)
IsTSDataplane == construct = "TSDataplane"

TSDataplaneProps ==
    [account: DCAccounts,
     osmlVpc: OSMLVpcs,
     containerImage: {"containerImage"},
     taskRole: {Undefined, CallerRole},
     config: {Undefined, TSDataplaneConfig(<<"MyJobTable">>)}]

TSSetupConfig ==
    /\ IsTSDataplane /\ pc = "ts_config"
    /\ tsConfig' = IF props.config # Undefined
                   THEN props.config
                   ELSE TSDataplaneConfig(<<>>)
    /\ pc' = "ts_role"
    /\ UNCHANGED <<construct, props, children, bindings, dcFields, dcLocals,
                   roleFields, taskRole, jobTable, smState, app>>

NewTaskRole(account) ==
    [type |-> "Role", id |-> "TSTaskRole", roleName |-> "TSTaskRole",
     accountId |-> account.id, region |-> account.region]

TSSetupTaskRole ==
    /\ IsTSDataplane /\ pc = "ts_role"
    /\ IF props.taskRole # Undefined
       THEN /\ taskRole' = props.taskRole
            /\ UNCHANGED children
       ELSE /\ taskRole' = NewTaskRole(props.account)
            /\ Declare(taskRole')
    /\ pc' = "ts_table"
    /\ UNCHANGED <<construct, props, bindings, dcFields, dcLocals,
                   roleFields, tsConfig, jobTable, smState, app>>

NewJobTable(cfg) ==
    [type |-> "Table", id |-> "TSJobTable", tableName |-> cfg.DDB_JOB_TABLE]

\* A constructor that declares the table and keeps no handle to it.
TSCreateJobTable_NoField ==
    /\ construct = "TSDataplane" /\ pc = "ts_table"
    /\ Declare(NewJobTable(tsConfig))
    /\ pc' = "done"
    /\ UNCHANGED <<construct, props, bindings, dcFields, dcLocals,
                   roleFields, tsFields, smState, app>>

TSCreateJobTable ==
    /\ IsTSDataplane /\ pc = "ts_table"
    /\ jobTable' = NewJobTable(tsConfig)
    /\ Declare(jobTable')
    /\ pc' = "done"
    /\ UNCHANGED <<construct, props, bindings, dcFields, dcLocals,
                   roleFields, tsConfig, taskRole, smState, app>>

TSDataplaneStep ==
    \/ TSSetupConfig
    \/ TSSetupTaskRole
    \/ TSCreateJobTable

(***************************************************************************)
(* OSMLSMEndpoint constructor                                              *)
(***************************************************************************)
IsSMEndpoint == construct = "OSMLSMEndpoint"

\* VPCs a caller may hand in: each has private subnets with egress
\* besides subnets of other types.
SMVpcs ==
    {[vpcId |-> "vpc-1",
      subnets |-> <<[subnetId |-> "subnet-pub-1", subnetType |-> "PUBLIC"],
                    [subnetId |-> "subnet-priv-1", subnetType |-> "PRIVATE_WITH_EGRESS"],
                    [subnetId |-> "subnet-priv-2", subnetType |-> "PRIVATE_WITH_EGRESS"]>>],
     [vpcId |-> "vpc-2",
      subnets |-> <<[subnetId |-> "subnet-priv-3", subnetType |-> "PRIVATE_WITH_EGRESS"],
                    [subnetId |-> "subnet-iso-1", subnetType |-> "PRIVATE_ISOLATED"]>>]}

OSMLSMEndpointProps ==
    [roleArn: {"arn:aws:iam::123456789012:role/SMRole"},
     modelContainer: {"123456789012.dkr.ecr.us-east-1.amazonaws.com/model:latest"},
     modelName: {"centerpoint", "flood"},
     initialInstanceCount: {1, 2},
     initialVariantWeight: {1},
     instanceType: {"ml.m5.xlarge", "ml.g4dn.xlarge"},
     variantName: {"AllTraffic"},
     vpc: SMVpcs,
     vpcSecurityGroup: {[securityGroupId |-> "sg-model-1"],
                        [securityGroupId |-> "sg-model-2"]}]

IsOfType(subnet, subnetType) == subnet.subnetType = subnetType

\* A selection that ignores the subnet type asked for.
SelectSubnets_AnyType(vpc, subnetType) ==
    [subnetIds |-> [i \in 1..Len(vpc.subnets) |-> vpc.subnets[i].subnetId]]

\* props.vpc.selectSubnets({subnetType}): the subnets of that type, in order
SelectSubnets(vpc, subnetType) ==
    LET OfAskedType(subnet) == IsOfType(subnet, subnetType)
        chosen == SelectSeq(vpc.subnets, OfAskedType)
    IN  [subnetIds |-> [i \in 1..Len(chosen) |-> chosen[i].subnetId]]

SelectVpcSubnets ==
    /\ IsSMEndpoint /\ pc = "sm_subnets"
    /\ vpcSubnetSelection' = SelectSubnets(props.vpc, "PRIVATE_WITH_EGRESS")
    /\ pc' = "sm_model"
    /\ UNCHANGED <<construct, props, children, bindings, dcFields, dcLocals,
                   roleFields, tsFields, constructId, model, endpointConfig,
                   endpoint, app>>

\* new CfnModel(this, id, {...})
NewModel(scopeId, p, selection) ==
    [type |-> "CfnModel", id |-> scopeId,
     executionRoleArn |-> p.roleArn,
     containers |-> <<[image |-> p.modelContainer,
                       environment |-> [MODEL_SELECTION |-> p.modelName]]>>,
     vpcConfig |-> [subnets |-> selection.subnetIds,
                    securityGroupIds |-> <<p.vpcSecurityGroup.securityGroupId>>],
     primaryContainer |-> [imageConfig |-> [repositoryAccessMode |-> "Vpc"]],
     attrModelName |-> Attr(scopeId, "ModelName")]

CreateModel ==
    /\ IsSMEndpoint /\ pc = "sm_model"
    /\ model' = NewModel(constructId, props, vpcSubnetSelection)
    /\ Declare(model')
    /\ pc' = "sm_config"
    /\ UNCHANGED <<construct, props, bindings, dcFields, dcLocals, roleFields,
                   tsFields, constructId, vpcSubnetSelection, endpointConfig,
                   endpoint, app>>

\* new CfnEndpointConfig(this, `${id}-EndpointConfig`, {...})
NewEndpointConfig(scopeId, p, m) ==
    [type |-> "CfnEndpointConfig", id |-> scopeId \o "-EndpointConfig",
     productionVariants |->
        <<[initialInstanceCount |-> p.initialInstanceCount,
           initialVariantWeight |-> p.initialVariantWeight,
           instanceType |-> p.instanceType,
           modelName |-> m.attrModelName,
           variantName |-> p.variantName]>>,
     attrEndpointConfigName |->
        Attr(scopeId \o "-EndpointConfig", "EndpointConfigName")]

CreateEndpointConfig ==
    /\ IsSMEndpoint /\ pc = "sm_config"
    /\ endpointConfig' = NewEndpointConfig(constructId, props, model)
    /\ Declare(endpointConfig')
    /\ pc' = "sm_endpoint"
    /\ UNCHANGED <<construct, props, bindings, dcFields, dcLocals, roleFields,
                   tsFields, constructId, vpcSubnetSelection, model, endpoint,
                   app>>

\* new CfnEndpoint(this, `${id}-Endpoint`, {...})
NewEndpoint(scopeId, p, cfg) ==
    [type |-> "CfnEndpoint", id |-> scopeId \o "-Endpoint",
     endpointConfigName |-> cfg.attrEndpointConfigName,
     endpointName |-> p.modelName]

CreateEndpoint ==
    /\ IsSMEndpoint /\ pc = "sm_endpoint"
    /\ endpoint' = NewEndpoint(constructId, props, endpointConfig)
    /\ Declare(endpoint')
    /\ pc' = "done"
    /\ UNCHANGED <<construct, props, bindings, dcFields, dcLocals, roleFields,
                   tsFields, constructId, vpcSubnetSelection, model,
                   endpointConfig, app>>

OSMLSMEndpointStep ==
    \/ SelectVpcSubnets
    \/ CreateModel
    \/ CreateEndpointConfig
    \/ CreateEndpoint

(***************************************************************************)
(* The application: it instantiates a construct, and once the constructor  *)
(* has returned it may instantiate the same class again, in a scope of its *)
(* own, with props that differ from the previous ones in one property.     *)
(***************************************************************************)
Constructs == {"DCDataplane", "TSLambdaRole", "TSDataplane", "OSMLSMEndpoint"}

\* the id argument a caller gives the construct
IdsOf(c) ==
    IF c = "OSMLSMEndpoint" THEN {"CenterpointEndpoint", "FloodEndpoint"} ELSE {c}

PropsOf(c) ==
    CASE c = "DCDataplane"  -> DCDataplaneProps
      [] c = "TSLambdaRole" -> TSLambdaRoleProps
      [] c = "TSDataplane"  -> TSDataplaneProps
      [] c = "OSMLSMEndpoint" -> OSMLSMEndpointProps

FirstPc(c) ==
    CASE c = "DCDataplane"  -> "setup_config"
      [] c = "TSLambdaRole" -> "init_fields"
      [] c = "TSDataplane"  -> "ts_config"
      [] c = "OSMLSMEndpoint" -> "sm_subnets"

\* The properties (those of the account taken one by one) in which two
\* props records of the same class differ.
Differing(p, q) ==
    {f \in DOMAIN p \ {"account"} : p[f] # q[f]}
        \cup (IF "account" \in DOMAIN p
              THEN {f \in DOMAIN p.account : p.account[f] # q.account[f]}
              ELSE {})

\* What an instantiation leaves behind: its props, its fields, the
\* constructs it declared and the bindings it added.
Outcome ==
    [construct |-> construct, props |-> props,
     children |-> children, bindings |-> bindings,
     config |-> config, securityGroup |-> securityGroup,
     ingestTopic |-> ingestTopic, lambdaRole |-> lambdaRole,
     removalPolicy |-> removalPolicy, stacFunction |-> stacFunction,
     ingestFunction |-> ingestFunction,
     role |-> role, partition |-> partition,
     tsConfig |-> tsConfig, taskRole |-> taskRole, jobTable |-> jobTable]

Fresh ==
    /\ children = <<>>
    /\ bindings = <<>>
    /\ config = Undefined
    /\ securityGroup = Undefined
    /\ ingestTopic = Undefined
    /\ lambdaRole = Undefined
    /\ removalPolicy = Undefined
    /\ stacFunction = Undefined
    /\ ingestFunction = Undefined
    /\ opensearchSecurityGroup = Undefined
    /\ osDomain = Undefined
    /\ env = Undefined
    /\ role = Undefined
    /\ partition = Undefined
    /\ tsDataplaneConfig = Undefined
    /\ tsConfig = Undefined
    /\ taskRole = Undefined
    /\ jobTable = Undefined
    /\ vpcSubnetSelection = Undefined
    /\ model = Undefined
    /\ endpointConfig = Undefined
    /\ endpoint = Undefined

Init ==
    /\ construct \in Constructs
    /\ constructId \in IdsOf(construct)
    /\ props \in PropsOf(construct)
    /\ pc = FirstPc(construct)
    /\ Fresh
    /\ composed = 1
    /\ prev = Undefined

\* The application goes on to instantiate class c with id cid and props q.
Compose(c, cid, q) ==
    /\ composed' = composed + 1
    /\ prev' = Outcome
    /\ construct' = c
    /\ constructId' = cid
    /\ props' = q
    /\ pc' = FirstPc(c)
    /\ children' = <<>>
    /\ bindings' = <<>>
    /\ config' = Undefined
    /\ securityGroup' = Undefined
    /\ ingestTopic' = Undefined
    /\ lambdaRole' = Undefined
    /\ removalPolicy' = Undefined
    /\ stacFunction' = Undefined
    /\ ingestFunction' = Undefined
    /\ opensearchSecurityGroup' = Undefined
    /\ osDomain' = Undefined
    /\ env' = Undefined
    /\ role' = Undefined
    /\ partition' = Undefined
    /\ tsDataplaneConfig' = Undefined
    /\ tsConfig' = Undefined
    /\ taskRole' = Undefined
    /\ jobTable' = Undefined
    /\ vpcSubnetSelection' = Undefined
    /\ model' = Undefined
    /\ endpointConfig' = Undefined
    /\ endpoint' = Undefined

Instantiate ==
    /\ pc = "done"
    /\ composed < MaxCompositions
    /\ \E q \in {x \in PropsOf(construct) : Cardinality(Differing(props, x)) = 1} :
           Compose(construct, constructId, q)

\* The application hands the role a TSLambdaRole produced to a TSDataplane
\* as its task role, together with any account, VPC and config.
ConsumeRole ==
    /\ IsTSRole /\ pc = "done"
    /\ composed < MaxCompositions
    /\ \E q \in TSDataplaneProps :
           Compose("TSDataplane", "TSDataplane", [q EXCEPT !.taskRole = role])

Next ==
    \/ DCDataplaneStep
    \/ TSLambdaRoleStep
    \/ TSDataplaneStep
    \/ OSMLSMEndpointStep
    \/ Instantiate
    \/ ConsumeRole

Spec == Init /\ [][Next]_vars

(***************************************************************************)
(* What the claims speak about.                                            *)
(***************************************************************************)
SetupPcs == {"setup_config", "setup_sg", "setup_topic", "setup_removal", "setup_role"}

\* setup(props) has returned
AfterSetup == IsDC /\ pc \notin SetupPcs

\* the constructor has returned
DCDone == IsDC /\ pc = "done"

\* positions in `seq' of the constructs of a type
OfType(seq, t) == {i \in 1..Len(seq) : seq[i].type = t}

\* positions of the security groups that are new, not imported references
NewSecurityGroups(seq) ==
    {i \in OfType(seq, "SecurityGroup") : ~seq[i].imported}

ImportedSecurityGroups(seq) ==
    {i \in OfType(seq, "SecurityGroup") : seq[i].imported}

Declared(resource) == \E i \in 1..Len(children) : children[i] = resource

AllCollaboratorsOmitted ==
    /\ props.lambdaRole = Undefined
    /\ props.ingestTopic = Undefined
    /\ props.securityGroupId = Undefined

OptionalFields == {"config", "securityGroupId", "ingestTopic", "lambdaRole"}

Resolution(f, o) ==
    CASE f = "config" ->
            IF o.config = o.props.config THEN "adopted" ELSE "created"
      [] f = "securityGroupId" ->
            IF ImportedSecurityGroups(o.children) # {} THEN "adopted" ELSE "none"
      [] f = "ingestTopic" ->
            IF OfType(o.children, "Topic") # {} THEN "created" ELSE "adopted"
      [] f = "lambdaRole" ->
            IF OfType(o.children, "Role") # {} THEN "created" ELSE "adopted"

\* the handle the resolution of an optional property left in the dataplane
Resolved(f, o) ==
    CASE f = "config"          -> o.config
      [] f = "securityGroupId" -> o.securityGroup
      [] f = "ingestTopic"     -> o.ingestTopic
      [] f = "lambdaRole"      -> o.lambdaRole

(***************************************************************************)
(* C3: each optional property of DCDataplane (config, security group,      *)
(* topic, role) is resolved once, by a test of that property alone: the    *)
(* dataplane declares one topic (role) exactly when none was supplied and  *)
(* imports one security group exactly when a non-empty id was supplied,    *)
(* and of two instantiations whose props differ only in one optional       *)
(* property every other optional property is resolved the same way (and,   *)
(* unless the configs differ, to the same handle).                         *)
(***************************************************************************)
C3_ResolvedOnceIndependently ==
    AfterSetup =>
        /\ Cardinality(OfType(children, "Topic")) =
               IF props.ingestTopic # Undefined THEN 0 ELSE 1
        /\ Cardinality(OfType(children, "Role")) =
               IF props.lambdaRole # Undefined THEN 0 ELSE 1
        /\ Cardinality(ImportedSecurityGroups(children)) =
               IF Truthy(props.securityGroupId) THEN 1 ELSE 0
        /\ Resolution("config", Outcome) =
               IF props.config # Undefined THEN "adopted" ELSE "created"
        /\ prev # Undefined =>
               \A f \in OptionalFields :
                   Differing(props, prev.props) = {f} =>
                       \A g \in OptionalFields \ {f} :
                           /\ Resolution(g, Outcome) = Resolution(g, prev)
                           /\ f # "config" => Resolved(g, Outcome) = Resolved(g, prev)

C3_Witness ==
    /\ DCDone
    /\ prev # Undefined
    /\ Differing(props, prev.props) = {"lambdaRole"}
    /\ props.lambdaRole # Undefined
    /\ props.ingestTopic = Undefined
    /\ Resolution("ingestTopic", prev) = "created"

(***************************************************************************)
(* C4: a DCDataplaneConfig constructed with no arguments has every field   *)
(* at its default, the config in effect is props.config itself when one    *)
(* is given and the default one otherwise, and every value the             *)
(* composition derives from the config (role name, topic name, Lambda      *)
(* timeout, memory and storage, OpenSearch data nodes, environment         *)
(* values, API name and stage) is the one of the config in effect.         *)
(***************************************************************************)
DefaultConfigValues ==
    [LAMBDA_ROLE_NAME          |-> "DCLambdaRole",
     LAMBDA_MEMORY_SIZE        |-> 4096,
     LAMBDA_STORAGE_SIZE       |-> 10,
     LAMBDA_TIMEOUT            |-> 300,
     OS_DATA_NODES             |-> 4,
     OS_EBS_SIZE               |-> 10,
     STAC_FASTAPI_BACKEND      |-> "opensearch",
     STAC_FASTAPI_TITLE        |-> "stac-fastapi-opensearch",
     STAC_FASTAPI_DESCRIPTION  |-> "A STAC FastAPI with an OpenSearch backend",
     STAC_FASTAPI_VERSION      |-> "2.4.1",
     STAC_FASTAPI_ROOT_PATH    |-> "data-catalog",
     RELOAD                    |-> "true",
     ENVIRONMENT               |-> "local",
     WEB_CONCURRENCY           |-> "10",
     ES_PORT                   |-> "443",
     ES_USE_SSL                |-> "true",
     ES_VERIFY_CERTS           |-> "true",
     SERVICE_NAME_ABBREVIATION |-> "DC",
     SNS_INGEST_TOPIC_NAME     |-> "osml-stac-ingest"]

ConfigInEffect ==
    IF props.config # Undefined THEN props.config ELSE DefaultConfigValues

FunctionFollows(fn, cfg) ==
    /\ fn.timeout = [seconds |-> cfg.LAMBDA_TIMEOUT]
    /\ fn.memorySize = cfg.LAMBDA_MEMORY_SIZE
    /\ fn.ephemeralStorageSize = [gibibytes |-> cfg.LAMBDA_STORAGE_SIZE]
    /\ fn.environment.STAC_FASTAPI_TITLE = cfg.STAC_FASTAPI_TITLE
    /\ fn.environment.STAC_FASTAPI_DESCRIPTION = cfg.STAC_FASTAPI_DESCRIPTION
    /\ fn.environment.STAC_FASTAPI_VERSION = cfg.STAC_FASTAPI_VERSION
    /\ fn.environment.RELOAD = cfg.RELOAD
    /\ fn.environment.ENVIRONMENT = cfg.ENVIRONMENT
    /\ fn.environment.WEB_CONCURRENCY = cfg.WEB_CONCURRENCY
    /\ fn.environment.ES_PORT = cfg.ES_PORT
    /\ fn.environment.ES_USE_SSL = cfg.ES_USE_SSL
    /\ fn.environment.ES_VERIFY_CERTS = cfg.ES_VERIFY_CERTS
    /\ fn.environment.STAC_FASTAPI_ROOT_PATH = "/" \o cfg.STAC_FASTAPI_ROOT_PATH

C4_ConfigAllOrNothing ==
    DCDone =>
        /\ config = ConfigInEffect
        /\ \A i \in OfType(children, "Role") :
               children[i].roleName = ConfigInEffect.LAMBDA_ROLE_NAME
        /\ \A i \in OfType(children, "Topic") :
               children[i].topicName = ConfigInEffect.SNS_INGEST_TOPIC_NAME
        /\ \A i \in OfType(children, "Domain") :
               children[i].capacity = [dataNodes |-> ConfigInEffect.OS_DATA_NODES]
        /\ \A i \in OfType(children, "DockerImageFunction") :
               FunctionFollows(children[i], ConfigInEffect)
        /\ FunctionFollows(stacFunction, ConfigInEffect)
        /\ FunctionFollows(ingestFunction, ConfigInEffect)
        /\ \A i \in OfType(children, "OSMLRestApi") :
               /\ children[i].name = ConfigInEffect.SERVICE_NAME_ABBREVIATION
               /\ children[i].apiStageName = ConfigInEffect.STAC_FASTAPI_ROOT_PATH

\* a supplied config that overrides every field, in a composition that
\* declares every config-derived resource, after one with no config
C4_Witness ==
    /\ DCDone
    /\ props.config = DCDataplaneConfig(AllOverridden)
    /\ props.lambdaRole = Undefined
    /\ props.ingestTopic = Undefined
    /\ props.account.auth
    /\ prev # Undefined
    /\ prev.props.config = Undefined
    /\ prev.config = DefaultConfigValues

(***************************************************************************)
(* TSLambdaRole                                                            *)
(***************************************************************************)
TSRoleDone == IsTSRole /\ pc = "done"

\* the partition string each known region lies in
KnownPartition(region) ==
    CASE region = "us-east-1"     -> "aws"
      [] region = "cn-north-1"    -> "aws-cn"
      [] region = "us-gov-west-1" -> "aws-us-gov"

LookupFails == FactFindPartition(props.account.region) = Undefined

\* the text the role's ARNs carry in the place of the partition
PartitionText ==
    IF LookupFails THEN TemplateStr(partition)
    ELSE KnownPartition(props.account.region)

ArnPrefix(service) ==
    "arn:" \o PartitionText \o ":" \o service \o ":" \o props.account.region
           \o ":" \o props.account.id \o ":"

(***************************************************************************)
(* C5: the role TSLambdaRole produces carries exactly four statements, in  *)
(* this order and each an ALLOW: DynamoDB Get/Put/UpdateItem on the job    *)
(* table, lambda:GetFunctionConfiguration on the account's functions, the  *)
(* EC2/ELB network-interface actions on "*", and the CloudWatch Logs       *)
(* actions; every ARN is built from the account id, the region and the     *)
(* partition of that region; no statement is added or repeated.  The role  *)
(* carries the given role name.                                            *)
(***************************************************************************)
C5_ExactStatements ==
    TSRoleDone =>
        /\ role # Undefined
        /\ role.roleName = props.roleName
        /\ OfType(children, "Role") = {1} /\ children[1] = role
        /\ ~LookupFails => partition = Str(KnownPartition(props.account.region))
        /\ role.statements =
             << [effect |-> "ALLOW",
                 actions |-> <<"dynamodb:GetItem", "dynamodb:PutItem",
                               "dynamodb:UpdateItem">>,
                 resources |-> <<ArnPrefix("dynamodb") \o "table/"
                                  \o TSDataplaneConfig(<<>>).DDB_JOB_TABLE>>],
                [effect |-> "ALLOW",
                 actions |-> <<"lambda:GetFunctionConfiguration">>,
                 resources |-> <<ArnPrefix("lambda") \o "function:*">>],
                [effect |-> "ALLOW",
                 actions |-> <<"elasticloadbalancing:DescribeLoadBalancers",
                               "ec2:CreateNetworkInterface",
                               "ec2:DescribeNetworkInterfaces",
                               "ec2:DeleteNetworkInterface",
                               "ec2:DescribeInstances",
                               "ec2:AttachNetworkInterface">>,
                 resources |-> <<"*">>],
                [effect |-> "ALLOW",
                 actions |-> <<"logs:CreateLogGroup", "logs:CreateLogStream",
                               "logs:PutLogEvents">>,
                 resources |-> <<ArnPrefix("logs") \o "*">>] >>
        /\ \A i, j \in 1..Len(role.statements) :
               i # j => role.statements[i] # role.statements[j]

C5_Witness ==
    /\ TSRoleDone
    /\ props.account.region = "cn-north-1"
    /\ props.account.id = "210987654321"
    /\ role.statements[4].resources =
           <<"arn:aws-cn:logs:cn-north-1:210987654321:*">>

(***************************************************************************)
(* C6: when the partition lookup for the account's region returns no       *)
(* partition, the composition stops there with an error: no role is        *)
(* declared, no statement is added and no ARN is built from the missing    *)
(* partition.                                                              *)
(***************************************************************************)
C6_FailsOnMissingPartition ==
    (IsTSRole /\ LookupFails) =>
        /\ pc \in {"init_fields", "partition", "role"}
        /\ children = <<>>
        /\ role = Undefined

(***************************************************************************)
(* C7: a DCDataplane declares an OSMLRestApi exactly when account.auth is  *)
(* true: then exactly one, and its integration targets stacFunction, not   *)
(* ingestFunction; with auth false none.  Of two instantiations whose      *)
(* props differ only in account.auth, every other declared construct,      *)
(* every binding and every field is the same.                              *)
(***************************************************************************)
NotRestApi(c) == c.type # "OSMLRestApi"

C7_RestApiIffAuth ==
    DCDone =>
        /\ Cardinality(OfType(children, "OSMLRestApi")) =
               IF props.account.auth THEN 1 ELSE 0
        /\ \A i \in OfType(children, "OSMLRestApi") :
               /\ children[i].integration.handler = stacFunction.id
               /\ children[i].integration.handler # ingestFunction.id
               /\ Declared(stacFunction)
        /\ (prev # Undefined /\ Differing(props, prev.props) = {"auth"}) =>
               /\ SelectSeq(children, NotRestApi) = SelectSeq(prev.children, NotRestApi)
               /\ bindings = prev.bindings
               /\ <<config, securityGroup, ingestTopic, lambdaRole,
                    removalPolicy, stacFunction, ingestFunction>> =
                  <<prev.config, prev.securityGroup, prev.ingestTopic,
                    prev.lambdaRole, prev.removalPolicy, prev.stacFunction,
                    prev.ingestFunction>>

C7_Witness ==
    /\ DCDone
    /\ props.account.auth
    /\ OfType(children, "OSMLRestApi") # {}
    /\ prev # Undefined
    /\ Differing(props, prev.props) = {"auth"}
    /\ OfType(prev.children, "OSMLRestApi") = {}

(***************************************************************************)
(* C8: with no optional property supplied and account.auth false, the      *)
(* DCDataplane declares exactly one new role, named DCLambdaRole as the    *)
(* default config says, exactly one new topic, named osml-stac-ingest,     *)
(* exactly two compute functions, exactly one search domain and no         *)
(* routing resource.                                                       *)
(***************************************************************************)
NothingOptionalSupplied == AllCollaboratorsOmitted /\ props.config = Undefined

C8_DefaultScenario ==
    (DCDone /\ NothingOptionalSupplied /\ ~props.account.auth) =>
        /\ Cardinality(OfType(children, "Role")) = 1
        /\ \A i \in OfType(children, "Role") : children[i].roleName = "DCLambdaRole"
        /\ Cardinality(OfType(children, "Topic")) = 1
        /\ \A i \in OfType(children, "Topic") : children[i].topicName = "osml-stac-ingest"
        /\ Cardinality(OfType(children, "DockerImageFunction")) = 2
        /\ Cardinality(OfType(children, "Domain")) = 1
        /\ OfType(children, "OSMLRestApi") = {}

C8_Witness ==
    /\ DCDone /\ NothingOptionalSupplied /\ ~props.account.auth
    /\ props.account.id = "123456789012" /\ props.account.region = "us-east-1"

(***************************************************************************)
(* C9: stacFunction and ingestFunction receive one and the same            *)
(* environment mapping: a fixed set of keys, each the field of the config  *)
(* in effect it is named after (the root path with a leading "/"), plus    *)
(* ES_HOST, the endpoint of the search domain declared in the same         *)
(* composition.                                                            *)
(***************************************************************************)
EnvKeys ==
    {"STAC_FASTAPI_TITLE", "STAC_FASTAPI_DESCRIPTION", "STAC_FASTAPI_VERSION",
     "RELOAD", "ENVIRONMENT", "WEB_CONCURRENCY", "ES_HOST", "ES_PORT",
     "ES_USE_SSL", "ES_VERIFY_CERTS", "STAC_FASTAPI_ROOT_PATH"}

C9_SharedEnvironment ==
    DCDone =>
        /\ stacFunction.environment = ingestFunction.environment
        /\ DOMAIN stacFunction.environment = EnvKeys
        /\ DOMAIN ingestFunction.environment = EnvKeys
        /\ \A k \in EnvKeys \ {"ES_HOST", "STAC_FASTAPI_ROOT_PATH"} :
               /\ stacFunction.environment[k] = config[k]
               /\ ingestFunction.environment[k] = config[k]
        /\ ingestFunction.environment.STAC_FASTAPI_ROOT_PATH =
               "/" \o config.STAC_FASTAPI_ROOT_PATH
        /\ Cardinality(OfType(children, "Domain")) = 1
        /\ \A i \in OfType(children, "Domain") :
               /\ stacFunction.environment.ES_HOST = children[i].domainEndpoint
               /\ ingestFunction.environment.ES_HOST = children[i].domainEndpoint
               /\ children[i].domainEndpoint = Attr(children[i].id, "DomainEndpoint")

C9_Witness ==
    /\ DCDone
    /\ props.config = DCDataplaneConfig(AllOverridden)
    /\ stacFunction.environment.ENVIRONMENT = "prod"
    /\ ingestFunction.environment.ES_HOST = Attr("DCOSDomain", "DomainEndpoint")

(***************************************************************************)
(* C10: a TSDataplane constructed with an account, a VPC and a container   *)
(* image, and with taskRole omitted, has its jobTable field defined.       *)
(***************************************************************************)
TSDataplaneDone == IsTSDataplane /\ pc = "done"

OfKind(seq, k) == {i \in 1..Len(seq) : seq[i].kind = k}

DeclaredId(id) == \E i \in 1..Len(children) : children[i].id = id

\* the role setup resolves to: the supplied one, else the one it declares
ResolvedRoleIsSuppliedOrCreated ==
    IF props.lambdaRole # Undefined
    THEN lambdaRole = props.lambdaRole
    ELSE lambdaRole.id = "DCLambdaRole" /\ Declared(lambdaRole)

\* resolve-config before resolve-collaborators before the first
\* declaration of the constructor body
ResolveBeforeDeclare ==
    /\ (securityGroup # Undefined \/ ingestTopic # Undefined
            \/ lambdaRole # Undefined \/ children # <<>>) => config # Undefined
    /\ (NewSecurityGroups(children) # {} \/ OfType(children, "Domain") # {}
            \/ OfType(children, "DockerImageFunction") # {}
            \/ OfType(children, "OSMLRestApi") # {} \/ bindings # <<>>) =>
           /\ AfterSetup
           /\ ingestTopic # Undefined
           /\ lambdaRole # Undefined

\* both functions carry the resolved role
FunctionsBoundToResolvedRole ==
    /\ \A i \in OfType(children, "DockerImageFunction") :
           /\ children[i].role = lambdaRole
           /\ ResolvedRoleIsSuppliedOrCreated
    /\ DCDone =>
           /\ OfType(children, "DockerImageFunction") # {}
           /\ stacFunction.role = lambdaRole
           /\ ingestFunction.role = lambdaRole

\* the ingest function, and only it, is subscribed to the resolved topic, once
IngestSubscribedOnce ==
    /\ Cardinality(OfKind(bindings, "subscription")) <= 1
    /\ \A i \in OfKind(bindings, "subscription") :
           /\ bindings[i].topic = ingestTopic.id
           /\ bindings[i].endpoint.fn = "DCIngestFunction"
           /\ bindings[i].endpoint.fn = ingestFunction.id
           /\ Declared(ingestFunction)
    /\ DCDone => Cardinality(OfKind(bindings, "subscription")) = 1

\* a function is let into the search domain on tcp/443 only once declared
AllowedAfterDeclared ==
    /\ \A i \in OfKind(bindings, "allowFrom") :
           /\ bindings[i].port = [protocol |-> "tcp", port |-> 443]
           /\ DeclaredId(bindings[i].peer)
           /\ DeclaredId(bindings[i].on)
           /\ bindings[i].on = "DCOSDomain"
    /\ DCDone =>
           {bindings[i].peer : i \in OfKind(bindings, "allowFrom")} =
               {stacFunction.id, ingestFunction.id}
    /\ DCDone => Cardinality(OfKind(bindings, "allowFrom")) = 2

(***************************************************************************)
(* C11 amended: in every DCDataplane composition the config is resolved    *)
(* first, then the optional collaborators, and only then the constructor   *)
(* body declares and binds; the role and topic are resolved before any     *)
(* function is declared, both functions are bound to the resolved role     *)
(* (supplied or created), the ingest function (and only it) is subscribed  *)
(* to the resolved topic exactly once, and each function is allowed to     *)
(* reach the search domain on TCP port 443 only after that function has    *)
(* been declared.  Declaring and binding are interleaved resource by       *)
(* resource: they are not two phases.                                      *)
(***************************************************************************)
C11_OrderPerResource ==
    IsDC =>
        /\ ResolveBeforeDeclare
        /\ FunctionsBoundToResolvedRole
        /\ IngestSubscribedOnce
        /\ AllowedAfterDeclared

C11_Witness ==
    /\ DCDone
    /\ props.lambdaRole = Undefined
    /\ props.ingestTopic # Undefined
    /\ Len(bindings) = 4
    /\ bindings[3].kind = "subscription"
    /\ bindings[3].topic = "CallerTopic"

(***************************************************************************)
(* C11 as stated: the steps come in the order resolve-config,              *)
(* resolve-optional-collaborators, declare-resources, bind, with the       *)
(* per-resource order above.  In the code a binding is followed by         *)
(* further declarations.                                                   *)
(***************************************************************************)
C11_DeclareThenBind ==
    /\ []C11_OrderPerResource
    /\ [][(IsDC /\ bindings # <<>> /\ composed' = composed)
              => children' = children]_vars

(***************************************************************************)
(* C12: the removal policy of a DCDataplane follows account.prodLike       *)
(* alone: RETAIN when prodLike is true and DESTROY otherwise, and the      *)
(* removalPolicy field equals the removal policy of the search domain      *)
(* declared in the same composition.  Of two instantiations, those that    *)
(* agree on prodLike agree on the policy and those that differ in it       *)
(* differ in the policy.                                                   *)
(***************************************************************************)
C12_RemovalPolicyFollowsProdLike ==
    (IsDC /\ pc \notin {"setup_config", "setup_sg", "setup_topic", "setup_removal"}) =>
        /\ removalPolicy = IF props.account.prodLike THEN "RETAIN" ELSE "DESTROY"
        /\ \A i \in OfType(children, "Domain") :
               children[i].removalPolicy = removalPolicy
        /\ DCDone => Cardinality(OfType(children, "Domain")) = 1
        /\ prev # Undefined =>
               (removalPolicy = prev.removalPolicy
                    <=> props.account.prodLike = prev.props.account.prodLike)

C12_Witness ==
    /\ DCDone
    /\ props.account.prodLike
    /\ removalPolicy = "RETAIN"
    /\ prev # Undefined
    /\ Differing(props, prev.props) = {"prodLike"}
    /\ prev.removalPolicy = "DESTROY"
    /\ \E i \in OfType(children, "Domain") : children[i].removalPolicy = "RETAIN"
(***************************************************************************)
(* C13: an OSMLSMEndpoint declares exactly one model, one endpoint         *)
(* configuration and one endpoint, in that order.  The configuration has a *)
(* single production variant and it names the model declared in the same   *)
(* instantiation; the endpoint names that configuration; the endpoint name *)
(* is props.modelName; the model's VPC config lists exactly the supplied   *)
(* security group's id and the subnets of the supplied VPC that are        *)
(* private with egress.                                                    *)
(***************************************************************************)
SMEndpointDone == IsSMEndpoint /\ pc = "done"

SMDeclarationOrder == <<"CfnModel", "CfnEndpointConfig", "CfnEndpoint">>

\* the types of the constructs declared so far, in order
TypesOf(seq) == [i \in 1..Len(seq) |-> seq[i].type]

PrivateWithEgressIds(vpc) ==
    {vpc.subnets[i].subnetId : i \in
        {j \in 1..Len(vpc.subnets) :
            vpc.subnets[j].subnetType = "PRIVATE_WITH_EGRESS"}}

ModelInVpc ==
    /\ model.vpcConfig.securityGroupIds =
           <<props.vpcSecurityGroup.securityGroupId>>
    /\ {model.vpcConfig.subnets[i] : i \in 1..Len(model.vpcConfig.subnets)}
           = PrivateWithEgressIds(props.vpc)
    /\ Len(model.vpcConfig.subnets)
           = Cardinality(PrivateWithEgressIds(props.vpc))

ChainedByReference ==
    /\ children = <<model, endpointConfig, endpoint>>
    /\ Len(endpointConfig.productionVariants) = 1
    /\ endpointConfig.productionVariants[1].modelName = model.attrModelName
    /\ model.attrModelName.of = children[1].id
    /\ endpoint.endpointConfigName = endpointConfig.attrEndpointConfigName
    /\ endpointConfig.attrEndpointConfigName.of = children[2].id
    /\ endpoint.endpointName = props.modelName

C13_ModelConfigEndpointChain ==
    IsSMEndpoint =>
        /\ Len(children) <= 3
        /\ TypesOf(children) = SubSeq(SMDeclarationOrder, 1, Len(children))
        /\ bindings = <<>>
        /\ model # Undefined => ModelInVpc
        /\ SMEndpointDone => ChainedByReference

C13_Witness ==
    /\ SMEndpointDone
    /\ props.vpc.vpcId = "vpc-1"
    /\ props.modelName = "flood"
    /\ TypesOf(children) = SMDeclarationOrder
    /\ model.vpcConfig.subnets = <<"subnet-priv-1", "subnet-priv-2">>
    /\ model.vpcConfig.securityGroupIds = <<"sg-model-2">>
    /\ endpoint.endpointName = "flood"
    /\ children[2].productionVariants[1].modelName
           = Attr(constructId, "ModelName")
(***************************************************************************)
(* C14: in every DCDataplane composition, with or without securityGroupId, *)
(* the only security group of the search domain is the DCOSSecurityGroup   *)
(* the constructor creates.  The security group setup resolves (the        *)
(* securityGroup field) is attached neither to the domain nor to a         *)
(* function.  Of two compositions whose props differ in securityGroupId    *)
(* alone, the resources declared (an imported reference declares none),    *)
(* the bindings and every public field other than securityGroup are the    *)
(* same.                                                                   *)
(***************************************************************************)
IsImportedReference(child) ==
    child.type = "SecurityGroup" /\ child.imported

IsDeclaredResource(child) == ~IsImportedReference(child)

\* the constructs of a scope that declare a resource, in order
Resources(seq) == SelectSeq(seq, IsDeclaredResource)

DomainInOwnSecurityGroup ==
    \A i \in OfType(children, "Domain") :
        /\ Len(children[i].securityGroups) = 1
        /\ children[i].securityGroups[1].id = "DCOSSecurityGroup"
        /\ ~children[i].securityGroups[1].imported
        /\ \E j \in NewSecurityGroups(children) :
               j < i /\ children[j] = children[i].securityGroups[1]

ResolvedGroupUnattached ==
    /\ \A i \in OfType(children, "Domain") :
           \A k \in 1..Len(children[i].securityGroups) :
               children[i].securityGroups[k] # securityGroup
    /\ \A i \in OfType(children, "DockerImageFunction") :
           "securityGroups" \notin DOMAIN children[i]
    /\ \A b \in 1..Len(bindings) :
           bindings[b].kind = "allowFrom" =>
               /\ bindings[b].on # "DCImportSecurityGroup"
               /\ bindings[b].peer # "DCImportSecurityGroup"

SameButSecurityGroupField ==
    /\ Resources(children) = Resources(prev.children)
    /\ bindings = prev.bindings
    /\ config = prev.config
    /\ ingestTopic = prev.ingestTopic
    /\ lambdaRole = prev.lambdaRole
    /\ removalPolicy = prev.removalPolicy
    /\ stacFunction = prev.stacFunction
    /\ ingestFunction = prev.ingestFunction

IsDynamoStatement(statement) == statement.actions[1] = "dynamodb:GetItem"

\* the resource ARNs of the DynamoDB statements of a role
DynamoResources(r) ==
    {r.statements[i].resources[1] :
        i \in {j \in 1..Len(r.statements) : IsDynamoStatement(r.statements[j])}}

DefaultTableArn(part, account) ==
    "arn:" \o TemplateStr(part) \o ":dynamodb:" \o account.region \o ":"
           \o account.id \o ":table/" \o TSDataplaneConfig(<<>>).DDB_JOB_TABLE

DynamoAdded == IsTSRole /\ pc \in {"lambda", "network", "logs", "assign", "done"}

\* the current instantiation is a TSDataplane handed the role of the
\* TSLambdaRole instantiated before it
ConsumesRole ==
    IsTSDataplane /\ prev # Undefined /\ prev.construct = "TSLambdaRole"

C15_TableArnFromDefaultConfig ==
    /\ DynamoAdded =>
          /\ tsDataplaneConfig = TSDataplaneConfig(<<>>)
          /\ DynamoResources(children[1])
                = {DefaultTableArn(partition, props.account)}
          /\ (prev # Undefined /\ prev.props.account = props.account) =>
                DynamoResources(children[1]) = DynamoResources(prev.role)
    /\ TSRoleDone => role = children[1]
    /\ ConsumesRole =>
          /\ props.taskRole = prev.role
          /\ DynamoResources(props.taskRole)
                = {DefaultTableArn(prev.partition, prev.props.account)}
          /\ taskRole # Undefined => taskRole = prev.role
          /\ OfType(children, "Role") = {}

C15_Witness ==
    /\ ConsumesRole
    /\ TSDataplaneDone
    /\ props.config # Undefined
    /\ jobTable.tableName = "MyJobTable"
    /\ taskRole = prev.role
    /\ prev.props.roleName = "TSSweeperRole"
    /\ DynamoResources(taskRole)
          = {"arn:aws-cn:dynamodb:cn-north-1:210987654321:table/TSJobTable"}

====
